---- MODULE Spec2Model ----
(***************************************************************************)
(* Model of src/media/example.py: the deployment script.  main() checks    *)
(* the arguments, loads a DeployConfig from a YAML file, and runs          *)
(* DeploymentManager.deploy(): update -> wait for rollout -> (rollback) -> *)
(* health probes.  The collaborators (kubectl through subprocess.run, the  *)
(* HTTP session, asyncio.sleep) are the environment: every call they       *)
(* receive is appended to `trace` with the result the environment chose.   *)
(***************************************************************************)
EXTENDS Integers, Sequences, FiniteSets, TLC

VARIABLES
    argc,          \* len(sys.argv)
    imageArg,      \* sys.argv[2]
    file,          \* the configuration file on disk
    config,        \* the DeployConfig held by the manager (NoConfig before load)
    kubectl_ns,    \* the namespace captured in DeploymentManager.kubectl_cmd
    pc,            \* position of the coroutine
    attempt,       \* loop variable of _verify_health
    deployResult,  \* "none" | "True" | "False": what deploy() returned
    exitCode,      \* -1 while running, else the argument of sys.exit
    trace,         \* collaborator calls made so far, in order
    logs,          \* log records emitted so far, in order
    cancelRequested \* "no", or the position the coroutine was at when its
                   \* task was asked to cancel

vars == <<argc, imageArg, file, config, kubectl_ns, pc, attempt, deployResult,
          exitCode, trace, logs, cancelRequested>>

----------------------------------------------------------------------------
(* Bounds of the model *)

MaxArgc == 4

----------------------------------------------------------------------------
(* Constants of the program *)

ExpectedArgc == 3
MaxAttempts == 5
ProbeTimeout == 10
SleepSeconds == 10
DefaultReplicas == 3
DefaultTimeout == 300

----------------------------------------------------------------------------
(* DeployConfig and the configuration file *)

Keys == {"service_name", "image_tag", "namespace", "replicas",
         "health_check_path", "timeout_seconds", "rollback_on_failure"}

RequiredKeys == {"service_name", "image_tag"}

\* Values a file can give to each key (a dataclass does not validate them).
FileVals ==
    [service_name: {"api", ""}, image_tag: {"old"}, namespace: {"prod", ""},
     replicas: {2, 0}, health_check_path: {"/ready"},
     timeout_seconds: {60, 0}, rollback_on_failure: BOOLEAN]

NominalVals ==
    [service_name |-> "api", image_tag |-> "old", namespace |-> "prod",
     replicas |-> 2, health_check_path |-> "/ready",
     timeout_seconds |-> 60, rollback_on_failure |-> TRUE]

\* Key sets of the files considered: complete, only the required keys,
\* no image_tag, no service_name, flag only given, an unknown key.
KeySets ==
    { Keys,
      {"service_name", "image_tag"},
      {"service_name", "image_tag", "rollback_on_failure"},
      {"service_name"},
      {"service_name", "namespace", "rollback_on_failure"},
      {"image_tag", "namespace"},
      Keys \cup {"extra"} }

\* A key the file does not give has no value: keep the nominal one.
ValsFor(ks) == { w \in FileVals : \A k \in Keys \ ks : w[k] = NominalVals[k] }

Files ==
    { [exists |-> FALSE, shape |-> "mapping", keys |-> Keys, vals |-> NominalVals] }
    \cup
    { [exists |-> TRUE, shape |-> s, keys |-> Keys, vals |-> NominalVals] :
         s \in {"malformed", "scalar"} }
    \cup
    UNION { { [exists |-> TRUE, shape |-> "mapping", keys |-> ks, vals |-> v] :
                 v \in ValsFor(ks) } : ks \in KeySets }

NoConfig ==
    [service_name |-> "", image_tag |-> "", namespace |-> "", replicas |-> 0,
     health_check_path |-> "", timeout_seconds |-> 0,
     rollback_on_failure |-> FALSE, built |-> FALSE]

\* variant: unknown keywords are accepted
DataclassAccepts_IgnoresUnknown(ks) == RequiredKeys \subseteq ks

\* DeployConfig(**data): the generated __init__ raises TypeError for an
\* unknown keyword and for a missing field that has no default.
DataclassAccepts(ks) ==
    /\ ks \subseteq Keys
    /\ RequiredKeys \subseteq ks

DeployConfig(ks, v) ==
    [service_name |-> v.service_name,
     image_tag |-> v.image_tag,
     namespace |-> IF "namespace" \in ks THEN v.namespace ELSE "default",
     replicas |-> IF "replicas" \in ks THEN v.replicas ELSE DefaultReplicas,
     health_check_path |-> IF "health_check_path" \in ks
                              THEN v.health_check_path ELSE "/health",
     timeout_seconds |-> IF "timeout_seconds" \in ks
                            THEN v.timeout_seconds ELSE DefaultTimeout,
     rollback_on_failure |-> IF "rollback_on_failure" \in ks
                                THEN v.rollback_on_failure ELSE TRUE,
     built |-> TRUE]

\* load_config returns (TRUE) or raises (FALSE) for file f.
LoadConfigSucceeds(f) ==
    /\ f.exists                      \* else FileNotFoundError
    /\ f.shape # "malformed"         \* else yaml.YAMLError
    /\ f.shape = "mapping"           \* else TypeError from **data
    /\ DataclassAccepts(f.keys)

----------------------------------------------------------------------------
(* Results of collaborator calls *)

Returned(code) == [kind |-> "returned", code |-> code]
Raised == [kind |-> "raised", code |-> 0]
Status(code) == [kind |-> "status", code |-> code]
Slept == [kind |-> "slept", code |-> 0]

\* subprocess.run: a CompletedProcess with a return code, or an exception.
CmdResults == {Returned(0), Returned(1), Raised}

\* session.get: a response with a status, or an exception.
ProbeResults == {Status(200), Status(503),
                 [kind |-> "timeout", code |-> 0],
                 [kind |-> "connerr", code |-> 0]}

Call(op, arg, secs, res) ==
    [op |-> op, service |-> config.service_name,
     \* kubectl commands use self.kubectl_cmd, the probe URL self.config.namespace
     ns |-> IF op \in {"Get", "sleep"} THEN config.namespace ELSE kubectl_ns,
     arg |-> arg, secs |-> secs, res |-> res]

Log(level, msg, n) == [level |-> level, msg |-> msg, n |-> n]

----------------------------------------------------------------------------
(* Decisions of the code *)

\* variant: the return code is not looked at
CommandOk_IgnoresReturncode(res) == res.kind = "returned"

\* result.returncode != 0 -> return False
CommandOk(res) == res.kind = "returned" /\ res.code = 0

CommandRaised(res) == res.kind = "raised"

\* variants: the flag is not consulted
ShouldRollback_Never(cfg) == FALSE
ShouldRollback_Always(cfg) == TRUE

\* if self.config.rollback_on_failure: await self._rollback()
ShouldRollback(cfg) == cfg.rollback_on_failure

\* if response.status == 200
ProbePassed(res) == res.kind = "status" /\ res.code = 200

\* the except branch of the probe attempt: the only place that logs and sleeps
ProbeRaised(res) == res.kind \in {"timeout", "connerr"}

\* variant: one iteration too many
HasNextAttempt_OffByOne(a) == a + 1 <= MaxAttempts

\* for attempt in range(5): is there another iteration after index a
HasNextAttempt(a) == a + 1 < MaxAttempts

\* variant: the result of deploy() is not looked at
ExitCodeFor_AlwaysZero(success) == 0

\* sys.exit(0) if success else sys.exit(1)
ExitCodeFor(success) == IF success THEN 0 ELSE 1

----------------------------------------------------------------------------
Init ==
    /\ argc \in 1..MaxArgc
    /\ imageArg = "new"
    /\ file \in Files
    /\ config = NoConfig
    /\ kubectl_ns = ""
    /\ pc = "main"
    /\ attempt = 0
    /\ deployResult = "none"
    /\ exitCode = -1
    /\ trace = <<>>
    /\ logs = <<>>
    /\ cancelRequested = "no"

\* main(): len(sys.argv) != 3 -> usage, sys.exit(1)
UsageError ==
    /\ pc = "main"
    /\ argc # ExpectedArgc
    /\ pc' = "exited"
    /\ exitCode' = 1
    /\ UNCHANGED <<cancelRequested, argc, imageArg, file, config, kubectl_ns, attempt,
                   deployResult, trace, logs>>

\* main(): load_config raises; except Exception -> log, sys.exit(1)
LoadConfigFails ==
    /\ pc = "main"
    /\ argc = ExpectedArgc
    /\ ~LoadConfigSucceeds(file)
    /\ logs' = Append(logs, Log("ERROR", "Script failed", 0))
    /\ pc' = "exited"
    /\ exitCode' = 1
    /\ UNCHANGED <<cancelRequested, argc, imageArg, file, config, kubectl_ns, attempt,
                   deployResult, trace>>

\* main(): load_config, config.image_tag = image_tag, DeploymentManager(config),
\* deploy() up to its first collaborator call
StartDeploy ==
    /\ pc = "main"
    /\ argc = ExpectedArgc
    /\ LoadConfigSucceeds(file)
    /\ LET c == DeployConfig(file.keys, file.vals) IN
         /\ config' = [c EXCEPT !.image_tag = imageArg]
         /\ kubectl_ns' = c.namespace
    /\ logs' = Append(logs, Log("INFO", "Starting deployment", 0))
    /\ pc' = "update"
    /\ UNCHANGED <<cancelRequested, argc, imageArg, file, attempt, deployResult, exitCode, trace>>

\* variant: deploy() has no except clause, the exception reaches main()
DeployRaised_Propagates(tr) ==
    /\ trace' = tr
    /\ logs' = Append(logs, Log("ERROR", "Script failed", 0))
    /\ exitCode' = 1
    /\ pc' = "exited"
    /\ UNCHANGED <<cancelRequested, argc, imageArg, file, config, kubectl_ns, attempt, deployResult>>

\* deploy() returns False through its except clause
DeployRaised(tr) ==
    /\ trace' = tr
    /\ logs' = Append(logs, Log("ERROR", "Deployment failed", 0))
    /\ deployResult' = "False"
    /\ pc' = "returned"
    /\ UNCHANGED <<cancelRequested, argc, imageArg, file, config, kubectl_ns, attempt, exitCode>>

\* variant: a non-zero status of the update command is retried once
UpdateDeployment_Retries ==
    /\ pc = "update"
    /\ \E res \in CmdResults :
         LET tr == Append(trace, Call("ApplyUpdate", config.image_tag, 0, res)) IN
         IF CommandRaised(res) THEN DeployRaised(tr)
         ELSE /\ trace' = tr
              /\ IF CommandOk(res)
                   THEN /\ logs' = Append(logs, Log("INFO", "Deployment updated successfully", 0))
                        /\ pc' = "rollout"
                        /\ UNCHANGED deployResult
                   ELSE /\ logs' = Append(logs, Log("ERROR", "Failed to update deployment", 0))
                        /\ IF trace = <<>>
                             THEN pc' = "update" /\ UNCHANGED deployResult
                             ELSE pc' = "returned" /\ deployResult' = "False"
              /\ UNCHANGED <<cancelRequested, argc, imageArg, file, config, kubectl_ns, attempt, exitCode>>

\* _update_deployment and the branch of deploy() on its result
UpdateDeployment ==
    /\ pc = "update"
    /\ \E res \in CmdResults :
         LET tr == Append(trace, Call("ApplyUpdate", config.image_tag, 0, res)) IN
         IF CommandRaised(res) THEN DeployRaised(tr)
         ELSE /\ trace' = tr
              /\ IF CommandOk(res)
                   THEN /\ logs' = Append(logs, Log("INFO", "Deployment updated successfully", 0))
                        /\ pc' = "rollout"
                        /\ UNCHANGED deployResult
                   ELSE /\ logs' = Append(logs, Log("ERROR", "Failed to update deployment", 0))
                        /\ deployResult' = "False"
                        /\ pc' = "returned"
              /\ UNCHANGED <<cancelRequested, argc, imageArg, file, config, kubectl_ns, attempt, exitCode>>

\* variant: the result of the rollout wait is not looked at
WaitForRollout_IgnoresResult ==
    /\ pc = "rollout"
    /\ \E res \in CmdResults :
         LET tr == Append(trace, Call("WaitForRollout", "", config.timeout_seconds, res)) IN
         IF CommandRaised(res) THEN DeployRaised(tr)
         ELSE /\ trace' = tr
              /\ pc' = "probe"
              /\ UNCHANGED <<cancelRequested, argc, imageArg, file, config, kubectl_ns, attempt,
                             exitCode, deployResult, logs>>

\* _wait_for_rollout and the branch of deploy() on its result
WaitForRollout ==
    /\ pc = "rollout"
    /\ \E res \in CmdResults :
         LET tr == Append(trace, Call("WaitForRollout", "", config.timeout_seconds, res)) IN
         IF CommandRaised(res) THEN DeployRaised(tr)
         ELSE /\ trace' = tr
              /\ IF CommandOk(res)
                   THEN /\ pc' = "probe"
                        /\ UNCHANGED <<deployResult, logs>>
                   ELSE IF ShouldRollback(config)
                          THEN /\ logs' = Append(logs, Log("WARNING", "Rolling back deployment", 0))
                               /\ pc' = "rollback"
                               /\ UNCHANGED deployResult
                          ELSE /\ deployResult' = "False"
                               /\ pc' = "returned"
                               /\ UNCHANGED logs
              /\ UNCHANGED <<cancelRequested, argc, imageArg, file, config, kubectl_ns, attempt, exitCode>>

\* variant: the rollback puts the file's image tag back into the config
Rollback_RestoresTag ==
    /\ pc = "rollback"
    /\ \E res \in CmdResults :
         /\ trace' = Append(trace, Call("Undo", "", 0, res))
         /\ config' = [config EXCEPT !.image_tag = file.vals.image_tag]
         /\ logs' = IF CommandRaised(res)
                       THEN Append(logs, Log("ERROR", "Deployment failed", 0))
                       ELSE logs
         /\ deployResult' = "False"
         /\ pc' = "returned"
         /\ UNCHANGED <<cancelRequested, argc, imageArg, file, kubectl_ns, attempt, exitCode>>

\* variant: the health check runs after the rollback as well
Rollback_ThenVerifies ==
    /\ pc = "rollback"
    /\ \E res \in CmdResults :
         LET tr == Append(trace, Call("Undo", "", 0, res)) IN
         IF CommandRaised(res) THEN DeployRaised(tr)
         ELSE /\ trace' = tr
              /\ pc' = "probe"
              /\ UNCHANGED <<cancelRequested, argc, imageArg, file, config, kubectl_ns, attempt,
                             exitCode, logs, deployResult>>

\* _rollback: the result of the command is ignored; deploy() returns False
Rollback ==
    /\ pc = "rollback"
    /\ \E res \in CmdResults :
         LET tr == Append(trace, Call("Undo", "", 0, res)) IN
         IF CommandRaised(res) THEN DeployRaised(tr)
         ELSE /\ trace' = tr
              /\ deployResult' = "False"
              /\ pc' = "returned"
              /\ UNCHANGED <<cancelRequested, argc, imageArg, file, config, kubectl_ns, attempt,
                             exitCode, logs>>

\* variant: an exhausted health check rolls back like a failed rollout
NextAttempt_RollsBack(lg) ==
    IF HasNextAttempt(attempt)
      THEN /\ attempt' = attempt + 1
           /\ pc' = "probe"
           /\ logs' = lg
           /\ UNCHANGED deployResult
      ELSE IF ShouldRollback(config)
             THEN /\ logs' = Append(lg, Log("WARNING", "Rolling back deployment", 0))
                  /\ pc' = "rollback"
                  /\ UNCHANGED <<attempt, deployResult>>
             ELSE /\ logs' = Append(lg, Log("ERROR", "Health check failed after deployment", 0))
                  /\ deployResult' = "False"
                  /\ pc' = "returned"
                  /\ UNCHANGED attempt

\* variant: the loop variable does not advance
NextAttempt_NoAdvance(lg) ==
    /\ pc' = "probe"
    /\ logs' = lg
    /\ UNCHANGED <<attempt, deployResult>>

\* the end of one iteration of `for attempt in range(5)`: next iteration, or
\* _verify_health returns False and deploy() logs and returns False
NextAttempt(lg) ==
    IF HasNextAttempt(attempt)
      THEN /\ attempt' = attempt + 1
           /\ pc' = "probe"
           /\ logs' = lg
           /\ UNCHANGED deployResult
      ELSE /\ logs' = Append(lg, Log("ERROR", "Health check failed after deployment", 0))
           /\ deployResult' = "False"
           /\ pc' = "returned"
           /\ UNCHANGED attempt

\* variant: no sleep after the last attempt
Probe_NoSleepAfterLast ==
    /\ pc = "probe"
    /\ cancelRequested = "no"
    /\ \E res \in ProbeResults :
         /\ trace' = Append(trace, Call("Get", config.health_check_path, ProbeTimeout, res))
         /\ IF ProbePassed(res)
              THEN /\ logs' = logs \o <<Log("INFO", "Health check passed", 0),
                                        Log("INFO", "Deployment completed successfully", 0)>>
                   /\ deployResult' = "True"
                   /\ pc' = "returned"
                   /\ UNCHANGED attempt
              ELSE IF ProbeRaised(res) /\ HasNextAttempt(attempt)
                     THEN /\ logs' = Append(logs, Log("WARNING", "Health check attempt failed", attempt + 1))
                          /\ pc' = "sleep"
                          /\ UNCHANGED <<attempt, deployResult>>
                     ELSE NextAttempt(logs)
    /\ UNCHANGED <<cancelRequested, argc, imageArg, file, config, kubectl_ns, exitCode>>

\* one session.get of _verify_health and the code that follows it
Probe ==
    /\ pc = "probe"
    /\ cancelRequested = "no"
    /\ \E res \in ProbeResults :
         /\ trace' = Append(trace, Call("Get", config.health_check_path, ProbeTimeout, res))
         /\ IF ProbePassed(res)
              THEN /\ logs' = logs \o <<Log("INFO", "Health check passed", 0),
                                        Log("INFO", "Deployment completed successfully", 0)>>
                   /\ deployResult' = "True"
                   /\ pc' = "returned"
                   /\ UNCHANGED attempt
              ELSE IF ProbeRaised(res)
                     THEN /\ logs' = Append(logs, Log("WARNING", "Health check attempt failed", attempt + 1))
                          /\ pc' = "sleep"
                          /\ UNCHANGED <<attempt, deployResult>>
                     ELSE NextAttempt(logs)
    /\ UNCHANGED <<cancelRequested, argc, imageArg, file, config, kubectl_ns, exitCode>>

\* await asyncio.sleep(10) in the except branch, then the loop goes on
Sleep ==
    /\ pc = "sleep"
    /\ cancelRequested = "no"
    /\ trace' = Append(trace, Call("sleep", "", SleepSeconds, Slept))
    /\ NextAttempt(logs)
    /\ UNCHANGED <<cancelRequested, argc, imageArg, file, config, kubectl_ns, exitCode>>

\* main(): deploy() has returned; log and sys.exit
Exit ==
    /\ pc = "returned"
    /\ exitCode' = ExitCodeFor(deployResult = "True")
    /\ logs' = Append(logs, IF deployResult = "True"
                              THEN Log("INFO", "Deployment successful", 0)
                              ELSE Log("ERROR", "Deployment failed!", 0))
    /\ pc' = "exited"
    /\ UNCHANGED <<cancelRequested, argc, imageArg, file, config, kubectl_ns, attempt,
                   deployResult, trace>>

Next ==
    \/ UsageError
    \/ LoadConfigFails
    \/ StartDeploy
    \/ UpdateDeployment
    \/ WaitForRollout
    \/ Rollback
    \/ Probe
    \/ Sleep
    \/ Exit

Spec == Init /\ [][Next]_vars

----------------------------------------------------------------------------
(* Cancellation of the task that runs main().  The coroutine can only be   *)
(* interrupted where it is suspended on the event loop: in the await of    *)
(* session.get and of asyncio.sleep.  subprocess.run blocks the loop, so   *)
(* the update, rollout and rollback commands are not suspension points.    *)
(* CancelledError derives from BaseException: no `except Exception` of     *)
(* the script catches it.                                                  *)

\* variant: the rollback command is awaited on the event loop
IsSuspensionPoint_AwaitedRollback(p) == p \in {"probe", "sleep", "rollback"}

IsSuspensionPoint(p) == p \in {"probe", "sleep"}

Cancelled == [kind |-> "cancelled", code |-> 0]

\* task.cancel() from outside, at any point of a run in progress
RequestCancel ==
    /\ cancelRequested = "no"
    /\ pc \in {"update", "rollout", "rollback", "probe", "sleep"}
    /\ cancelRequested' = pc
    /\ UNCHANGED <<argc, imageArg, file, config, kubectl_ns, pc, attempt,
                   deployResult, exitCode, trace, logs>>

\* CancelledError is raised in the pending await and leaves deploy() and main()
DeliverCancel ==
    /\ cancelRequested # "no"
    /\ IsSuspensionPoint(pc)
    /\ trace' = Append(trace,
                  IF pc = "probe"
                    THEN Call("Get", config.health_check_path, ProbeTimeout, Cancelled)
                  ELSE IF pc = "sleep"
                    THEN Call("sleep", "", SleepSeconds, Cancelled)
                  ELSE Call("Undo", "", 0, Cancelled))
    /\ pc' = "cancelled"
    /\ UNCHANGED <<cancelRequested, argc, imageArg, file, config, kubectl_ns,
                   attempt, deployResult, exitCode, logs>>

CancelNext ==
    \/ Next
    \/ RequestCancel
    \/ DeliverCancel

CancelSpec == Init /\ [][CancelNext]_vars
----------------------------------------------------------------------------
\* Every collaborator call returns or raises, and the scheduler runs the
\* coroutine whenever it can take a step.
FairSpec == Spec /\ WF_vars(Next)

----------------------------------------------------------------------------
(* Observations on a run, used to state the properties *)

CallsOf(op) == { i \in 1..Len(trace) : trace[i].op = op }
Count(op) == Cardinality(CallsOf(op))

\* the results of the calls of op, in order
RECURSIVE ResultsFrom(_, _)
ResultsFrom(op, i) ==
    IF i > Len(trace) THEN <<>>
    ELSE IF trace[i].op = op THEN <<trace[i].res>> \o ResultsFrom(op, i + 1)
    ELSE ResultsFrom(op, i + 1)
ResultsOf(op) == ResultsFrom(op, 1)

DeployReturned == deployResult # "none"

\* The terminal state of the state machine a finished run is in: deploy()
\* returns True only at its last line, and False from the stage it was in.
Outcome ==
    IF deployResult = "none" \/ trace = <<>> THEN "None"
    ELSE IF deployResult = "True" THEN "Success"
    ELSE LET last == trace[Len(trace)].op IN
         CASE last = "ApplyUpdate" -> "UpdateFailed"
           [] last = "WaitForRollout" -> "RolloutFailed"
           [] last = "Undo" -> "RolledBack"
           [] OTHER -> "HealthCheckFailed"

UpdateSucceeded == \E i \in CallsOf("ApplyUpdate") : trace[i].res = Returned(0)
UpdateFailed == \E i \in CallsOf("ApplyUpdate") : trace[i].res # Returned(0)
RolloutSucceeded == \E i \in CallsOf("WaitForRollout") : trace[i].res = Returned(0)
RolloutReturnedFailure ==
    \E i \in CallsOf("WaitForRollout") :
        trace[i].res.kind = "returned" /\ trace[i].res.code # 0
RolloutFailed == \E i \in CallsOf("WaitForRollout") : trace[i].res # Returned(0)

----------------------------------------------------------------------------
(* C1: whenever ApplyUpdate has failed (non-zero status or an exception),   *)
(* deploy() has returned False in the UpdateFailed state and the run holds  *)
(* no WaitForRollout call and no Undo call.                                 *)
C1_UpdateFailureEndsRun ==
    UpdateFailed =>
        /\ deployResult = "False"
        /\ Outcome = "UpdateFailed"
        /\ Count("WaitForRollout") = 0
        /\ Count("Undo") = 0
        /\ Count("Get") = 0

C1_Witness ==
    /\ pc = "exited"
    /\ UpdateFailed
    /\ trace[1].res = Returned(1)
    /\ deployResult = "False"

(* C2: once deploy() has returned in a run where ApplyUpdate succeeded,     *)
(* WaitForRollout returned a failure and rollback_on_failure is true, Undo  *)
(* was invoked exactly once and the run ended in RolledBack with False,     *)
(* whatever Undo returned or raised.                                        *)
C2_RollbackOnRolloutFailure ==
    (/\ DeployReturned
     /\ UpdateSucceeded
     /\ RolloutReturnedFailure
     /\ config.rollback_on_failure)
    =>  /\ Count("Undo") = 1
        /\ Outcome = "RolledBack"
        /\ deployResult = "False"
        /\ Count("Get") = 0

C2_Witness ==
    /\ pc = "exited"
    /\ RolloutReturnedFailure
    /\ config.rollback_on_failure
    /\ config.service_name = "api" /\ config.namespace = "prod"
    /\ config.timeout_seconds = 60
    /\ Count("Undo") = 1
    /\ ResultsOf("Undo") = <<Returned(1)>>
    /\ deployResult = "False"

(* C3: whenever WaitForRollout has failed in a run whose config has         *)
(* rollback_on_failure false, deploy() has returned False in RolloutFailed, *)
(* with no Undo call and no health probe.                                   *)
C3_NoRollbackWhenDisabled ==
    (RolloutFailed /\ ~config.rollback_on_failure)
    =>  /\ deployResult = "False"
        /\ Outcome = "RolloutFailed"
        /\ Count("Undo") = 0
        /\ Count("Get") = 0
        /\ pc \in {"returned", "exited"}

C3_Witness ==
    /\ pc = "exited"
    /\ UpdateSucceeded
    /\ RolloutReturnedFailure
    /\ ~config.rollback_on_failure
    /\ Count("Undo") = 0
    /\ deployResult = "False"

(* C4: the health check issues at most 5 GETs; a GET answered 200 is the    *)
(* last call of the run and ends it with Success, and only such a GET does; *)
(* a run that ends False after probing has made exactly 5 GETs, none of     *)
(* them answered 200.                                                       *)
C4_ProbePolicy ==
    /\ Count("Get") <= 5
    /\ \A i \in CallsOf("Get") :
          trace[i].res = Status(200) =>
              /\ i = Len(trace)
              /\ deployResult = "True"
    /\ deployResult = "True" =>
          /\ trace[Len(trace)].op = "Get"
          /\ trace[Len(trace)].res = Status(200)
    /\ (deployResult = "False" /\ Count("Get") > 0) =>
          /\ Count("Get") = 5
          /\ \A i \in CallsOf("Get") : trace[i].res # Status(200)
          /\ Outcome = "HealthCheckFailed"

C4_Witness ==
    /\ pc = "exited"
    /\ deployResult = "False"
    /\ Count("Get") = 5
    /\ \E i, j \in CallsOf("Get") :
          trace[i].res = Status(503) /\ trace[j].res.kind = "timeout"

\* rollout succeeded, all attempts were made and none passed
HealthCheckExhausted ==
    /\ RolloutSucceeded
    /\ Count("Get") >= 5
    /\ \A i \in CallsOf("Get") : trace[i].res # Status(200)
    /\ pc # "sleep"

(* C5: in a run whose rollout succeeded and whose health check used up all  *)
(* its attempts, the run is over with False and Undo was never invoked,     *)
(* with rollback_on_failure true as well as false.                          *)
C5_NoUndoAfterHealthFailure ==
    HealthCheckExhausted =>
        /\ Count("Undo") = 0
        /\ pc \in {"returned", "exited"}
        /\ deployResult = "False"

C5_Witness ==
    /\ pc = "exited"
    /\ HealthCheckExhausted
    /\ config.rollback_on_failure
    /\ Outcome = "HealthCheckFailed"

(* C6: with probe responses 503, 503, 200 the run ends with Success after   *)
(* 3 attempts and exactly 2 sleeps of 10 s: a sleep follows every failed    *)
(* attempt, a non-200 one included.                                         *)
C6_SleepAfterEveryFailedProbe ==
    ResultsOf("Get") = <<Status(503), Status(503), Status(200)>>
    =>  /\ deployResult = "True"
        /\ Count("sleep") = 2
        /\ \A i \in CallsOf("sleep") : trace[i].secs = 10

(* C7: when the process has exited, the exit code is 0 exactly when         *)
(* deploy() ended with Success (update succeeded, rollout succeeded, a      *)
(* probe returned 200); otherwise, a configuration-load failure and a wrong *)
(* argument count included, it is 1.                                        *)
C7_ExitCode ==
    pc = "exited" =>
        /\ exitCode \in {0, 1}
        /\ exitCode = 0 <=>
              /\ Outcome = "Success"
              /\ UpdateSucceeded
              /\ RolloutSucceeded
              /\ \E i \in CallsOf("Get") : trace[i].res = Status(200)
        /\ argc # 3 => exitCode = 1
        /\ config = NoConfig => exitCode = 1
        /\ (DeployReturned /\ Outcome # "Success") => exitCode = 1

C7_Witness ==
    /\ pc = "exited"
    /\ exitCode = 0
    /\ Outcome = "Success"
    /\ Count("Get") = 3

\* the file cannot be loaded into a DeployConfig
ConfigLoadFails ==
    \/ ~file.exists
    \/ file.shape # "mapping"
    \/ "service_name" \notin file.keys
    \/ "image_tag" \notin file.keys
    \/ "extra" \in file.keys

(* C8: in a run with the right argument count whose configuration cannot be *)
(* loaded, no collaborator call is ever made, no config is built, and the   *)
(* process exits with code 1.                                               *)
C8_ConfigFailureBeforeAnyCall ==
    (argc = 3 /\ ConfigLoadFails) =>
        /\ trace = <<>>
        /\ config = NoConfig
        /\ pc \in {"main", "exited"}
        /\ pc = "exited" => exitCode = 1

C8_Witness ==
    /\ pc = "exited"
    /\ argc = 3
    /\ ~file.exists
    /\ exitCode = 1
    /\ trace = <<>>

(* C9: whenever a collaborator has raised in the update, rollout-wait or    *)
(* rollback stage, deploy() has returned False; a probe that raised never   *)
(* ends the run without a result; and the process never exits from a        *)
(* started deployment without deploy() having returned a result.            *)
C9_NoFaultEscapes ==
    /\ (\E i \in 1..Len(trace) : trace[i].res.kind = "raised")
          => deployResult = "False" /\ pc \in {"returned", "exited"}
    /\ (pc = "exited" /\ config # NoConfig) => deployResult \in {"True", "False"}
    /\ (pc = "exited" /\ trace # <<>>) => exitCode = ExitCodeFor(deployResult = "True")

C9_Witness ==
    /\ pc = "exited"
    /\ \E i \in CallsOf("Undo") : trace[i].res.kind = "raised"
    /\ deployResult = "False"
    /\ exitCode = 1

(* C10: a run never holds more than one ApplyUpdate, one WaitForRollout or  *)
(* one Undo call, nor more than 5 probes; a run whose deploy() has returned *)
(* holds exactly one ApplyUpdate call.                                      *)
C10_NoBackendRetry ==
    /\ Count("ApplyUpdate") <= 1
    /\ Count("WaitForRollout") <= 1
    /\ Count("Undo") <= 1
    /\ Count("Get") <= 5
    /\ DeployReturned => Count("ApplyUpdate") = 1
    /\ pc \in {"rollout", "rollback", "probe", "sleep"} => Count("ApplyUpdate") = 1

C10_Witness ==
    /\ pc = "exited"
    /\ Count("ApplyUpdate") = 1
    /\ Count("WaitForRollout") = 1
    /\ Count("Get") = 5
    /\ Count("sleep") = 5
(* C11: in every run with the right argument count whose file is a mapping  *)
(* of known keys that supplies service_name, the deployment proceeds and    *)
(* the image passed to ApplyUpdate is the second argument, whether the file *)
(* holds an image_tag or not.                                               *)
C11_ImageFromArgument ==
    (/\ pc = "exited"
     /\ argc = 3
     /\ file.exists
     /\ file.shape = "mapping"
     /\ file.keys \subseteq Keys
     /\ "service_name" \in file.keys
     /\ file.vals.service_name = "api")
    =>  /\ Count("ApplyUpdate") = 1
        /\ \A i \in CallsOf("ApplyUpdate") : trace[i].arg = imageArg

(* C12: a config with which ApplyUpdate has been invoked has                *)
(* timeout_seconds > 0, replicas >= 1 and a non-empty service_name and      *)
(* namespace.                                                               *)
C12_ConfigInvariant ==
    Count("ApplyUpdate") > 0 =>
        /\ config.timeout_seconds > 0
        /\ config.replicas >= 1
        /\ config.service_name # ""
        /\ config.namespace # ""

(* C13: the calls of a run are in stage order: ApplyUpdate is the first     *)
(* call and is made once; a WaitForRollout call comes second, after an      *)
(* ApplyUpdate that returned 0; every probe comes after a WaitForRollout    *)
(* that returned 0; an Undo call comes right after a WaitForRollout that    *)
(* returned a failure, and nothing follows it.                              *)
C13_StageOrder ==
    /\ \A i \in CallsOf("ApplyUpdate") : i = 1
    /\ \A i \in CallsOf("WaitForRollout") :
          /\ i = 2
          /\ trace[1].op = "ApplyUpdate" /\ trace[1].res = Returned(0)
    /\ \A i \in CallsOf("Get") \cup CallsOf("sleep") :
          /\ i > 2
          /\ trace[2].op = "WaitForRollout" /\ trace[2].res = Returned(0)
    /\ \A i \in CallsOf("Undo") :
          /\ i = 3 /\ i = Len(trace)
          /\ trace[2].op = "WaitForRollout"
          /\ trace[2].res.kind = "returned" /\ trace[2].res.code # 0

C13_Witness ==
    /\ pc = "exited"
    /\ Len(trace) = 4
    /\ trace[1].op = "ApplyUpdate"
    /\ trace[2].op = "WaitForRollout"
    /\ trace[3].op = "Get" /\ trace[3].res = Status(503)
    /\ trace[4].op = "Get" /\ trace[4].res = Status(200)

(* C15: once deploy() has returned in a run with rollback_on_failure true   *)
(* whose rollout command raised instead of returning a status, Undo was     *)
(* invoked exactly once and the run ended in RolledBack.                    *)
C15_RollbackWhenRolloutRaises ==
    (/\ DeployReturned
     /\ config.rollback_on_failure
     /\ \E i \in CallsOf("WaitForRollout") : trace[i].res.kind = "raised")
    =>  /\ Count("Undo") = 1
        /\ Outcome = "RolledBack"
(* C14: if every collaborator call returns or raises, every run eventually  *)
(* exits; a run never holds more than 1 update, 1 rollout wait, 5 probes    *)
(* and 1 undo; and once deploy() has returned its result stays and no       *)
(* collaborator call is made any more.                                      *)
C14_Terminates ==
    /\ <>(pc = "exited")
    /\ [](/\ Count("ApplyUpdate") <= 1
          /\ Count("WaitForRollout") <= 1
          /\ Count("Get") <= 5
          /\ Count("Undo") <= 1
          /\ Len(trace) <= 12)
    /\ [][deployResult # "none" =>
             (trace' = trace /\ deployResult' = deployResult)]_vars

C14_Witness ==
    /\ pc = "exited"
    /\ deployResult = "False"
    /\ Len(trace) = 12
    /\ Count("Get") = 5

\* a step that makes a backend call or a probe
StageStep == trace' # trace /\ trace'[Len(trace')].op # "sleep"

(* C17: every step of the run that makes a backend call or a probe, be it   *)
(* successful or failed, appends at least one log record.                   *)
C17_EveryTransitionLogs ==
    [][StageStep => Len(logs') > Len(logs)]_vars

(* C18: from the start of deploy() on the config never changes, and every   *)
(* call recorded names the namespace and the service of that config, the    *)
(* namespace being the one captured when the manager was constructed.       *)
C18_ConfigImmutable ==
    /\ [][pc # "main" => config' = config]_vars
    /\ [](\A i \in 1..Len(trace) :
             /\ trace[i].ns = kubectl_ns
             /\ trace[i].ns = config.namespace
             /\ trace[i].service = config.service_name)
    /\ [](\A i \in CallsOf("ApplyUpdate") : trace[i].arg = config.image_tag)

C18_Witness ==
    /\ pc = "exited"
    /\ config.namespace = "prod"
    /\ Count("Undo") = 1
    /\ \A i \in 1..Len(trace) : trace[i].ns = "prod"

(* C19: no run holds both a probe and an Undo call; a run with a probe has  *)
(* a WaitForRollout call that returned 0, and a run with an Undo call has a *)
(* WaitForRollout call that did not.                                        *)
C19_ProbeAndUndoExclusive ==
    /\ ~(Count("Get") > 0 /\ Count("Undo") > 0)
    /\ Count("Get") > 0 =>
          \E i \in CallsOf("WaitForRollout") : trace[i].res = Returned(0)
    /\ Count("Undo") > 0 =>
          \E i \in CallsOf("WaitForRollout") : trace[i].res # Returned(0)

C19_Witness ==
    /\ pc = "exited"
    /\ Count("Undo") = 1
    /\ Count("Get") = 0
    /\ ResultsOf("Undo") = <<Returned(0)>>

\* the probes that raised (timeout or connection error)
ErroredProbes == { i \in CallsOf("Get") : trace[i].res.kind \in {"timeout", "connerr"} }

(* C20: every probe that raised is followed by a 10-second sleep, the 5th   *)
(* included: the sleeps made, plus the one about to be made, are as many as *)
(* the probes that raised; a run never holds more than 5 sleeps; and when   *)
(* all 5 probes raised, deploy() returns only after the 5th sleep.          *)
C20_SleepAfterEveryError ==
    /\ Count("sleep") + (IF pc = "sleep" THEN 1 ELSE 0) = Cardinality(ErroredProbes)
    /\ \A i \in ErroredProbes : i < Len(trace) => trace[i + 1].op = "sleep"
    /\ \A i \in CallsOf("sleep") : trace[i].secs = 10
    /\ Count("sleep") <= 5
    /\ (Cardinality(ErroredProbes) = 5 /\ deployResult # "none") =>
          /\ Count("sleep") = 5
          /\ trace[Len(trace)].op = "sleep"
          /\ Outcome = "HealthCheckFailed"

C20_Witness ==
    /\ pc = "exited"
    /\ Cardinality(ErroredProbes) = 5
    /\ Count("sleep") = 5
    /\ deployResult = "False"
\* _rollback has been entered: its first statement logs this record
RollbackStarted == \E i \in 1..Len(logs) : logs[i].msg = "Rolling back deployment"

(* C16: a cancellation ends the run only from the await of a probe or of a  *)
(* sleep; a run ended by cancellation holds no started rollback; and a run  *)
(* whose rollback has started and which is over, even if the cancellation   *)
(* was requested before or during the rollback, holds its completed Undo    *)
(* call and the result of deploy().                                         *)
C16_CancelNeverMidRollback ==
    /\ [][pc' = "cancelled" => (pc \in {"probe", "sleep"} /\ cancelRequested # "no")]_vars
    /\ [](pc = "cancelled" => (~RollbackStarted /\ Count("Undo") = 0))
    /\ []((RollbackStarted /\ pc \in {"cancelled", "returned", "exited"}) =>
             /\ Count("Undo") = 1
             /\ trace[Len(trace)].res \in CmdResults
             /\ deployResult = "False")

C16_Witness ==
    /\ pc = "exited"
    /\ cancelRequested = "rollback"
    /\ RollbackStarted
    /\ Count("Undo") = 1
    /\ deployResult = "False"

====
